---- MODULE Spec2Model ----
(***************************************************************************)
(* Job lifecycle of llmbo's BatchInferer / StructuredBatchInferer          *)
(* (src/src/llmbo/llmbo.py).  A controller's attributes are the state; one *)
(* action per public method.  The batch service, object storage and the    *)
(* local disk are the environment: every response the client can give is   *)
(* chosen nondeterministically.  Python exceptions keep their Python       *)
(* names; the design document's error kinds map onto them as               *)
(*   ValidationError / PreconditionError(cancel) -> ValueError             *)
(*   PreconditionError(create)                   -> AttributeError         *)
(*   SubmissionError / CancellationError         -> RuntimeError           *)
(*   TransferError                               -> ClientError            *)
(*   MissingArtifactError (load_results)         -> FileExistsError        *)
(*   MissingArtifactError (recovery)             -> FileNotFoundError      *)
(*   NotFoundError / FormatError                 -> ValueError             *)
(*   InvalidOperationError                       -> TypeError              *)
(***************************************************************************)
EXTENDS Integers, Sequences, FiniteSets, TLC

VARIABLES
    live,               \* the controllers the caller holds
    structured,         \* c -> TRUE for a StructuredBatchInferer
    job_name,           \* c -> self.job_name
    model_name,         \* c -> self.model_name
    job_arn,            \* c -> self.job_arn
    job_status,         \* c -> self.job_status
    requests,           \* c -> self.requests
    output_file_name,   \* c -> self.output_file_name
    manifest_file_name, \* c -> self.manifest_file_name
    results,            \* c -> self.results
    manifest,           \* c -> self.manifest
    instances,          \* c -> self.instances (StructuredBatchInferer)
    heap,               \* the caller's ModelInput objects, by reference
    disk,               \* local files: name -> content
    s3,                 \* bucket objects: key -> content
    remote,             \* jobs the batch service has created, in order
    last,               \* the last call: method, controller, result, error, I/O done
    run                 \* the poll_progress or auto call under way: where it stands

vars == <<live, structured, job_name, model_name, job_arn, job_status, requests,
          output_file_name, manifest_file_name, results, manifest, instances,
          heap, disk, s3, remote, last, run>>

\* what load_results assigns
loaded == <<results, manifest, instances>>

----------------------------------------------------------------------------
(* Bounds of the model.                                                    *)

\* jobs the batch service accepts before it rejects every further create
MaxJobs == 2
\* how many entries beyond the minimum batch size an input mapping may have
MaxExtra == 1
\* how many leading records of a results file may be of any kind
MaxVaried == 1
\* up to how many get-job calls of one poll_progress or auto call are counted
MaxPolls == 3

----------------------------------------------------------------------------
(* Values.                                                                 *)

\* Python's None for an attribute that otherwise holds a list or an object
None == [tag |-> "None"]
Some(v) == [tag |-> "Some", v |-> v]

\* Python's None for an attribute that otherwise holds a string
NoneStr == "None"

\* job_arn is None until assigned; an ARN is <<service prefix, job suffix>>,
\* so that split("/")[-1] is its last component
NoArn == <<>>
BedrockPrefix == "arn:aws:bedrock:"
Arn(n) == <<BedrockPrefix, n>>

VALID_FINISHED_STATUSES == {"Completed", "Failed", "Stopped", "Expired"}

\* the status strings get-job can report
RemoteStatuses == {"InProgress", "Completed", "Failed", "Stopping", "Stopped", "Expired"}

\* HTTP status codes a response can carry: the success code and another one
HTTP_OK == 200
HttpCodes == {HTTP_OK, 500}

MinBatchSize == 100

\* the controllers a caller may hold
Controllers == {"a", "b"}

----------------------------------------------------------------------------
(* ModelInput and the caller's input mappings.                             *)

\* the tool a structured controller builds from its output_model
SchemaTool == [name |-> "NameAgeModel", description |-> "please fill in the schema",
               input_schema |-> "NameAgeModel.schema"]
OtherTool == [name |-> "other", description |-> "caller's tool", input_schema |-> "other.schema"]

ToolChoice(t, n) == [type |-> t, name |-> n]

\* a ModelInput as the caller constructs it: optional fields are None.  The
\* defaulted scalars (anthropic_version, max_tokens) travel with messages.
ModelInput(tools) ==
    [messages |-> "user: hello", temperature |-> None,
     tools |-> tools, tool_choice |-> None]

ObjIds == {"o1", "o2"}
InitHeap == [o \in ObjIds |->
               IF o = "o1" THEN ModelInput(None) ELSE ModelInput(Some(<<OtherTool>>))]

OptionalFields == {"temperature", "tools", "tool_choice"}

\* ModelInput.to_dict: the fields that are not None ...
to_dict(mi) ==
    [k \in {"messages"} \cup {f \in OptionalFields : mi[f] # None} |->
        IF k = "messages" THEN mi.messages ELSE mi[k].v]

\* record identifiers "000", "001", ... are the positions 1, 2, ...
Sizes == {0, MinBatchSize - 1} \cup {MinBatchSize + k : k \in 0..MaxExtra}

\* an input mapping: insertion-ordered (recordId, reference to a ModelInput)
Mapping(n, o) == [i \in 1..n |-> [recordId |-> i, obj |-> o]]
InputMappings == {Mapping(n, o) : n \in Sizes, o \in ObjIds}

\* the mappings a caller passes in the lifecycle specification: one batch
\* below the minimum size and one of exactly the minimum size
LifecycleInputs == {Mapping(MinBatchSize - 1, "o1"), Mapping(MinBatchSize, "o1")}

\* StructuredBatchInferer._add_tool_to_model_input: overwrites both fields
add_tool_to_model_input(mi) ==
    [mi EXCEPT !.tools = Some(<<SchemaTool>>),
               !.tool_choice = Some(ToolChoice("tool", SchemaTool.name))]

----------------------------------------------------------------------------
(* File names and storage keys.                                            *)

file_name(c) == <<job_name[c], ".jsonl">>
\* os.path.splitext(file_name), then f"{file_name_}_out{ext}"
OutName(fn) == <<fn[1], "_out", fn[2]>>
ManifestName(fn) == <<fn[1], "_manifest", fn[2]>>
InputKey(fn) == <<"input", fn>>

\* unique_id_from_arn: the last component of the ARN
unique_id_from_arn(arn) == arn[Len(arn)]

NoName == <<>>

----------------------------------------------------------------------------
(* What a call leaves behind for the caller to observe.                    *)

\* calls made on the clients and files written: get, create and stop count the
\* calls of client.get_model_invocation_job, create_model_invocation_job and
\* stop_model_invocation_job (one the client refuses included), upload and
\* download those of s3_client.upload_file and download_file
NoIO == [get |-> 0, create |-> 0, stop |-> 0, upload |-> 0, download |-> 0,
         write |-> 0]

\* op on controller c, whose cached status was `was`; the environment answered
\* resp; the call returned ret or raised err, after the I/O counted in io.
\* size is the number of entries of the mapping passed to prepare_requests.
Outcome(op, c, was, resp, ret, err, io) ==
    [op |-> op, c |-> c, was |-> was, resp |-> resp, ret |-> ret, err |-> err, io |-> io,
     size |-> 0]

Sized(outcome, inputs) == [outcome EXCEPT !.size = Len(inputs)]

NoErr == "ok"

\* the response when the client is never asked
NotAsked == [kind |-> "not asked"]

\* no poll_progress or auto call was made yet.  call is the method, c its
\* controller, at the statement it stands at ("returned" and "raised" once it
\* is over), gets the get-job calls its polling made, later those made after
\* the polling, first the rank of the get-job call that was first answered
\* with a finished status (0 if none was)
NoRun == [call |-> "none", c |-> "a", at |-> "idle", gets |-> 0, later |-> 0,
          first |-> 0]

\* a controller "a" just constructed (plain or structured), beside what is
\* already on the local disk, in the bucket and in the batch service
Constructed(files, bucket, jobs) ==
    /\ live = {"a"}
    /\ structured \in {[c \in Controllers |-> c = "a" /\ b] : b \in BOOLEAN}
    /\ job_name = [c \in Controllers |-> "job"]
    /\ model_name = [c \in Controllers |-> "model"]
    /\ job_arn = [c \in Controllers |-> NoArn]
    /\ job_status = [c \in Controllers |-> NoneStr]
    /\ requests = [c \in Controllers |-> None]
    /\ output_file_name = [c \in Controllers |-> NoName]
    /\ manifest_file_name = [c \in Controllers |-> NoName]
    /\ results = [c \in Controllers |-> None]
    /\ manifest = [c \in Controllers |-> None]
    /\ instances = [c \in Controllers |-> None]
    /\ heap = InitHeap
    /\ disk = files
    /\ s3 = bucket
    /\ remote = jobs
    /\ last = Outcome("__init__", "a", NoneStr, NotAsked, NoneStr, NoErr, NoIO)
    /\ run = NoRun

Init == Constructed(<<>>, <<>>, <<>>)

----------------------------------------------------------------------------
(* Responses of the environment.                                           *)

\* client.get_model_invocation_job(jobIdentifier=arn): the client refuses a
\* missing identifier before sending anything; otherwise the service reports a
\* status or the call raises
GetResponses(arn) ==
    IF arn = NoArn
    THEN {[kind |-> "ParamValidationError"]}
    ELSE {[kind |-> "ok", status |-> st] : st \in RemoteStatuses}
         \cup {[kind |-> "ClientError"]}

\* client.create_model_invocation_job(...): a response with a status code (and
\* the new job's ARN when the service accepted it), an empty response, or the
\* call raises.  The service accepts at most MaxJobs jobs.
CreateResponses ==
    (IF Len(remote) < MaxJobs
     THEN {[kind |-> "response", code |-> HTTP_OK, jobArn |-> Arn(Len(remote) + 1)]}
     ELSE {})
    \cup {[kind |-> "response", code |-> code] : code \in HttpCodes \ {HTTP_OK}}
    \cup {[kind |-> "empty"], [kind |-> "ClientError"]}

\* client.stop_model_invocation_job(jobIdentifier=arn)
StopResponses ==
    {[kind |-> "response", code |-> code] : code \in HttpCodes}
    \cup {[kind |-> "ClientError"]}

\* s3_client.upload_file / download_file: done, or the call raises
TransferResponses == {"done", "ClientError"}

\* the two download_file calls of download_results: the second is made only
\* when the first is done
DownloadResponses == {<<"ClientError">>, <<"done", "ClientError">>, <<"done", "done">>}

----------------------------------------------------------------------------
(* Raw results, the caller's output_model and what the service writes.     *)

\* JSON values a tool call can carry as its input
JsonObject(r) == [json |-> "object", v |-> r]
JsonArray(a) == [json |-> "array", v |-> [items |-> a]]

\* content blocks of a model output
ToolUse(payload) == [type |-> "tool_use", input |-> payload]
TextBlock == [type |-> "text", text |-> "hello"]

\* the kinds of line an output file can hold
ResultKinds == {"error", "end_turn", "two_calls", "text_block",
                "conforming", "missing_age", "not_a_mapping"}

ModelOutput(kind) ==
    CASE kind = "end_turn" ->
           [stop_reason |-> "end_turn", content |-> <<TextBlock>>]
      [] kind = "two_calls" ->
           [stop_reason |-> "tool_use",
            content |-> <<ToolUse(JsonObject([name |-> "John", age |-> 30])),
                          ToolUse(JsonObject([name |-> "Jane", age |-> 31]))>>]
      [] kind = "text_block" ->
           [stop_reason |-> "tool_use", content |-> <<TextBlock>>]
      [] kind = "conforming" ->
           [stop_reason |-> "tool_use",
            content |-> <<ToolUse(JsonObject([name |-> "John", age |-> 30]))>>]
      [] kind = "missing_age" ->
           [stop_reason |-> "tool_use",
            content |-> <<ToolUse(JsonObject([name |-> "John"]))>>]
      [] kind = "not_a_mapping" ->
           [stop_reason |-> "tool_use",
            content |-> <<ToolUse(JsonArray(<<"John", "30">>))>>]

\* a line of the output file: a record the service could not process carries
\* no modelOutput
RawResult(id, kind) ==
    [recordId |-> id,
     modelOutput |-> IF kind = "error" THEN None ELSE Some(ModelOutput(kind))]

\* the output file the service writes for an input file: one line per
\* request.  The first lines are of the kinds given; after them, a tool call
\* where the request forces one and a text answer where it does not.
ServiceResults(input, kinds) ==
    [i \in 1..Len(input) |->
        RawResult(input[i].recordId,
                  IF i <= Len(kinds) THEN kinds[i]
                  ELSE IF "tools" \in DOMAIN input[i].modelInput
                  THEN "conforming" ELSE "end_turn")]

\* the manifest the service writes beside an output file
ManifestOf(rs) ==
    LET errors == Cardinality({i \in 1..Len(rs) : rs[i].modelOutput = None})
    IN <<[totalRecordCount |-> Len(rs), processedRecordCount |-> Len(rs),
          successRecordCount |-> Len(rs) - errors, errorRecordCount |-> errors]>>

\* self.output_model(**payload), for the NameAgeModel (name: str, age: int)
\* of the examples: ** of a value that is not a mapping is a TypeError, a
\* missing or ill-typed field is pydantic's ValidationError
output_model(payload) ==
    IF payload.json # "object"
    THEN [err |-> "TypeError"]
    ELSE IF /\ {"name", "age"} \subseteq DOMAIN payload.v
            /\ payload.v.age \in Int
         THEN [err |-> NoErr,
               instance |-> [model |-> SchemaTool.name,
                             name |-> payload.v.name, age |-> payload.v.age]]
         ELSE [err |-> "ValidationError"]

\* "result['stop_reason'] == 'tool_use'"
UsedTool(mo) == mo.stop_reason = "tool_use"

\* mutant: any number of content blocks but none will do
SingleBlock_AtLeastOne(mo) == Len(mo.content) >= 1

\* "len(result['content']) == 1"
SingleBlock(mo) == Len(mo.content) = 1

\* StructuredBatchInferer.validate_result: the value returned, or the error
\* raised.  Only a TypeError of the constructor is caught.
validate_result(mo) ==
    IF ~UsedTool(mo) THEN [ret |-> None, err |-> NoErr]
    ELSE IF ~SingleBlock(mo) THEN [ret |-> None, err |-> NoErr]
    ELSE IF mo.content[1].type = "tool_use"
    THEN LET made == output_model(mo.content[1].input)
         IN IF made.err = NoErr THEN [ret |-> Some(made.instance), err |-> NoErr]
            ELSE IF made.err = "TypeError" THEN [ret |-> None, err |-> NoErr]
            ELSE [ret |-> None, err |-> made.err]
    ELSE [ret |-> None, err |-> NoErr]

----------------------------------------------------------------------------
(* BatchInferer.prepare_requests / StructuredBatchInferer.prepare_requests *)

\* mutant: the size check is off by one
TooSmall_OffByOne(inputs) == Len(inputs) < MinBatchSize - 1

\* the size check of prepare_requests
TooSmall(inputs) == Len(inputs) < MinBatchSize

\* the list comprehension of prepare_requests, over a heap h
BuildRequests(inputs, h) ==
    LET d == [o \in ObjIds |-> to_dict(h[o])]
    IN [i \in 1..Len(inputs) |->
          [recordId |-> inputs[i].recordId, modelInput |-> d[inputs[i].obj]]]

\* the dict comprehension of the structured prepare_requests: every ModelInput
\* the mapping refers to is modified in place
WithTools(inputs, h) ==
    [o \in ObjIds |->
        IF \E i \in 1..Len(inputs) : inputs[i].obj = o
        THEN add_tool_to_model_input(h[o]) ELSE h[o]]

prepare_requests(c, inputs) ==
    /\ c \in live
    /\ LET h == IF structured[c] THEN WithTools(inputs, heap) ELSE heap
       IN /\ heap' = h
          /\ IF TooSmall(inputs)
             THEN /\ requests' = requests
                  /\ last' = Sized(Outcome("prepare_requests", c, job_status[c], NotAsked,
                                           NoneStr, "ValueError", NoIO), inputs)
             ELSE /\ requests' = [requests EXCEPT ![c] = Some(BuildRequests(inputs, h))]
                  /\ last' = Sized(Outcome("prepare_requests", c, job_status[c], NotAsked,
                                           NoneStr, NoErr, NoIO), inputs)
    /\ UNCHANGED <<live, structured, job_name, model_name, job_arn, job_status,
                   output_file_name, manifest_file_name, disk, s3, remote>>
    /\ UNCHANGED loaded

----------------------------------------------------------------------------
(* BatchInferer.push_requests_to_s3 (with _write_requests_locally)         *)

push_requests_to_s3(c) ==
    /\ c \in live
    /\ IF requests[c] = None
       THEN \* len(None) in _write_requests_locally
            /\ last' = Outcome("push_requests_to_s3", c, job_status[c], NotAsked, NoneStr, "TypeError", NoIO)
            /\ UNCHANGED <<disk, s3>>
       ELSE /\ disk' = (file_name(c) :> requests[c].v) @@ disk
            /\ \E up \in TransferResponses :
                 IF up = "done"
                 THEN /\ s3' = (InputKey(file_name(c)) :> requests[c].v) @@ s3
                      /\ last' = Outcome("push_requests_to_s3", c, job_status[c], NotAsked, NoneStr, NoErr,
                                         [NoIO EXCEPT !.write = 1, !.upload = 1])
                 ELSE /\ s3' = s3
                      /\ last' = Outcome("push_requests_to_s3", c, job_status[c], NotAsked, NoneStr, "ClientError",
                                         [NoIO EXCEPT !.write = 1, !.upload = 1])
    /\ UNCHANGED <<live, structured, job_name, model_name, job_arn, job_status, requests,
                   output_file_name, manifest_file_name, heap, remote>>
    /\ UNCHANGED loaded

----------------------------------------------------------------------------
(* BatchInferer.create                                                     *)

\* mutant: create does not look at the prepared batch
HasRequests_Unchecked(r) == TRUE

\* "if self.requests": neither None nor an empty list
HasRequests(r) == r # None /\ Len(r.v) > 0

\* the test on the create response's status code
CreateAccepted(resp) == resp.code = HTTP_OK

\* mutant: the returned ARN is not kept
AssignedArn_Dropped(resp) == NoArn

\* "self.job_arn = response['jobArn']"
AssignedArn(resp) == resp.jobArn

\* mutant: an empty response falls through and create returns None
CreateError_Swallowed(resp) ==
    IF resp.kind = "ClientError" THEN "ClientError"
    ELSE IF resp.kind = "empty" THEN NoErr ELSE "RuntimeError"

\* what create raises when the response is not accepted: RuntimeError for a
\* non-200 or an empty response; an exception of the client propagates
CreateError(resp) == IF resp.kind = "ClientError" THEN "ClientError" ELSE "RuntimeError"

\* the job the service records when it accepts a create request; varied are
\* the kinds of the first lines of the output it writes for the job
NewJob(c) == [jobName |-> job_name[c], modelId |-> model_name[c],
              inputUri |-> InputKey(file_name(c)), varied |-> <<>>]

create(c, resp) ==
    /\ c \in live
    /\ IF HasRequests(requests[c])
       THEN /\ resp \in CreateResponses
            /\ remote' = IF resp.kind = "response" /\ resp.code = HTTP_OK
                         THEN Append(remote, NewJob(c)) ELSE remote
            /\ IF resp.kind = "response"
               THEN IF CreateAccepted(resp)
                    THEN /\ job_arn' = [job_arn EXCEPT ![c] = AssignedArn(resp)]
                         /\ last' = Outcome("create", c, job_status[c], resp, "response",
                                            NoErr, [NoIO EXCEPT !.create = 1])
                    ELSE /\ job_arn' = job_arn
                         /\ last' = Outcome("create", c, job_status[c], resp, NoneStr,
                                            CreateError(resp), [NoIO EXCEPT !.create = 1])
               ELSE /\ job_arn' = job_arn
                    /\ last' = Outcome("create", c, job_status[c], resp, NoneStr,
                                       CreateError(resp), [NoIO EXCEPT !.create = 1])
       ELSE /\ resp = NotAsked
            /\ last' = Outcome("create", c, job_status[c], resp, NoneStr,
                               "AttributeError", NoIO)
            /\ UNCHANGED <<remote, job_arn>>
    /\ UNCHANGED <<live, structured, job_name, model_name, job_status, requests,
                   output_file_name, manifest_file_name, heap, disk, s3>>
    /\ UNCHANGED loaded

----------------------------------------------------------------------------
(* BatchInferer.check_complete                                             *)

\* mutant: only Completed counts as finished
IsFinished_OnlyCompleted(status) == status = "Completed"

\* mutant: a Stopped status is not taken for finished
IsFinished_NotStopped(status) == status \in VALID_FINISHED_STATUSES \ {"Stopped"}

\* "self.job_status in VALID_FINISHED_STATUSES"
IsFinished(status) == status \in VALID_FINISHED_STATUSES

\* the responses check_complete can meet: it asks only if the cached status
\* is not finished
Asked(status, arn) == IF IsFinished(status) THEN {NotAsked} ELSE GetResponses(arn)

\* mutant: check_complete returns whatever status was reported
CheckComplete_ReturnsRaw(status, resp) ==
    IF ~IsFinished(status)
    THEN IF resp.kind = "ok"
         THEN [status |-> resp.status, ret |-> resp.status, err |-> NoErr, get |-> 1]
         ELSE [status |-> status, ret |-> NoneStr, err |-> resp.kind, get |-> 1]
    ELSE [status |-> status, ret |-> status, err |-> NoErr, get |-> 0]

\* check_complete on a controller whose cached status is `status`, given the
\* response of the client: the new cached status, the value returned, the
\* error raised and the number of get-job calls made
CheckComplete(status, resp) ==
    IF ~IsFinished(status)
    THEN IF resp.kind = "ok"
         THEN [status |-> resp.status,
               ret |-> IF IsFinished(resp.status) THEN resp.status ELSE NoneStr,
               err |-> NoErr, get |-> 1]
         ELSE [status |-> status, ret |-> NoneStr, err |-> resp.kind, get |-> 1]
    ELSE [status |-> status, ret |-> status, err |-> NoErr, get |-> 0]

check_complete(c, resp) ==
    /\ c \in live
    /\ resp \in Asked(job_status[c], job_arn[c])
    /\ LET r == CheckComplete(job_status[c], resp)
       IN /\ job_status' = [job_status EXCEPT ![c] = r.status]
          /\ last' = Outcome("check_complete", c, job_status[c], resp, r.ret, r.err,
                             [NoIO EXCEPT !.get = r.get])
    /\ UNCHANGED <<live, structured, job_name, model_name, job_arn, requests,
                   output_file_name, manifest_file_name, heap, disk, s3, remote>>
    /\ UNCHANGED loaded

----------------------------------------------------------------------------
(* BatchInferer.cancel_batch                                               *)

\* mutant: cancel_batch does not look at job_arn
HasArn_Unchecked(arn) == TRUE

\* "if not self.job_arn"
HasArn(arn) == arn # NoArn

\* mutant: the stop response is compared with the wrong code
StopAccepted_WrongCode(resp) == resp.code = 202

\* the test on the stop response's status code
StopAccepted(resp) == resp.code = HTTP_OK

\* mutant: cancel_batch caches the transitional status
CancelledStatus_Stopping == "Stopping"

\* the status cancel_batch caches on success
CancelledStatus == "Stopped"

\* mutant: a stop response of another status code is only logged
CancelError_Swallowed(resp) == IF resp.kind = "ClientError" THEN "ClientError" ELSE NoErr

\* what cancel_batch raises when the stop request is not accepted: RuntimeError
\* for a response of another status code; an exception of the client propagates
CancelError(resp) == IF resp.kind = "ClientError" THEN "ClientError" ELSE "RuntimeError"

cancel_batch(c, resp) ==
    /\ c \in live
    /\ IF ~HasArn(job_arn[c])
       THEN /\ resp = NotAsked
            /\ last' = Outcome("cancel_batch", c, job_status[c], resp, NoneStr,
                               "ValueError", NoIO)
            /\ UNCHANGED job_status
       ELSE /\ resp \in StopResponses
            /\ IF resp.kind = "response"
               THEN IF StopAccepted(resp)
                    THEN /\ job_status' = [job_status EXCEPT ![c] = CancelledStatus]
                         /\ last' = Outcome("cancel_batch", c, job_status[c], resp,
                                            NoneStr, NoErr, [NoIO EXCEPT !.stop = 1])
                    ELSE /\ last' = Outcome("cancel_batch", c, job_status[c], resp,
                                            NoneStr, CancelError(resp),
                                            [NoIO EXCEPT !.stop = 1])
                         /\ UNCHANGED job_status
               ELSE /\ last' = Outcome("cancel_batch", c, job_status[c], resp, NoneStr,
                                       CancelError(resp), [NoIO EXCEPT !.stop = 1])
                    /\ UNCHANGED job_status
    /\ UNCHANGED <<live, structured, job_name, model_name, job_arn, requests,
                   output_file_name, manifest_file_name, heap, disk, s3, remote>>
    /\ UNCHANGED loaded

----------------------------------------------------------------------------
(* BatchInferer.download_results                                           *)

\* what the service wrote for a job, from the input it finds in the bucket:
\* the raw outputs and the manifest
OutContent(arn) ==
    LET job == remote[unique_id_from_arn(arn)]
    IN ServiceResults(IF job.inputUri \in DOMAIN s3 THEN s3[job.inputUri] ELSE <<>>,
                      job.varied)
ManifestContent(arn) == ManifestOf(OutContent(arn))

\* mutant: download_results goes on whatever check_complete returned
DownloadPermitted_Always(ret) == TRUE

\* "if self.check_complete() in VALID_FINISHED_STATUSES"
DownloadPermitted(ret) == ret \in VALID_FINISHED_STATUSES

\* the two download_file calls, of which the second is made only when the
\* first is done: the local files afterwards, the error, the calls made
Transfer(fn, arn, d, files) ==
    IF d[1] # "done"
    THEN [disk |-> files, err |-> "ClientError", download |-> 1]
    ELSE IF d[2] # "done"
    THEN [disk |-> (OutName(fn) :> OutContent(arn)) @@ files,
          err |-> "ClientError", download |-> 2]
    ELSE [disk |-> (OutName(fn) :> OutContent(arn)) @@
                   (ManifestName(fn) :> ManifestContent(arn)) @@ files,
          err |-> NoErr, download |-> 2]

download_results(c, resp, d) ==
    /\ c \in live
    /\ resp \in Asked(job_status[c], job_arn[c])
    /\ LET r == CheckComplete(job_status[c], resp)
           io == [NoIO EXCEPT !.get = r.get]
           fn == file_name(c)
       IN /\ job_status' = [job_status EXCEPT ![c] = r.status]
          /\ IF r.err # NoErr
             THEN /\ d = <<>>
                  /\ last' = Outcome("download_results", c, job_status[c], resp,
                                     NoneStr, r.err, io)
                  /\ UNCHANGED <<output_file_name, manifest_file_name, disk>>
             ELSE IF ~DownloadPermitted(r.ret)
             THEN \* only logged: the call returns normally
                  /\ d = <<>>
                  /\ last' = Outcome("download_results", c, job_status[c], resp,
                                     NoneStr, NoErr, io)
                  /\ UNCHANGED <<output_file_name, manifest_file_name, disk>>
             ELSE /\ output_file_name' = [output_file_name EXCEPT ![c] = OutName(fn)]
                  /\ manifest_file_name' =
                         [manifest_file_name EXCEPT ![c] = ManifestName(fn)]
                  /\ IF ~HasArn(job_arn[c])
                     THEN \* unique_id_from_arn raises
                          /\ d = <<>>
                          /\ last' = Outcome("download_results", c, job_status[c], resp,
                                             NoneStr, "ValueError", io)
                          /\ UNCHANGED disk
                     ELSE /\ d \in DownloadResponses
                          /\ LET t == Transfer(fn, job_arn[c], d, disk)
                             IN /\ disk' = t.disk
                                /\ last' = Outcome("download_results", c, job_status[c],
                                                   resp, NoneStr, t.err,
                                                   [io EXCEPT !.download = t.download])
    /\ UNCHANGED <<live, structured, job_name, model_name, job_arn, requests, heap, s3, remote>>
    /\ UNCHANGED loaded

----------------------------------------------------------------------------
(* BatchInferer.load_results / StructuredBatchInferer.load_results         *)

\* os.path.isfile of both names: isfile(None) is a TypeError
LoadError(out, man, files) ==
    IF out = NoName THEN "TypeError"
    ELSE IF out \in DOMAIN files /\ man \in DOMAIN files THEN NoErr
    ELSE "FileExistsError"

\* the records of rs at which validate_result raises
Raising(rs) ==
    {i \in 1..Len(rs) :
        rs[i].modelOutput # None /\ validate_result(rs[i].modelOutput.v).err # NoErr}

\* the list comprehension of the structured load_results
Validated(rs) ==
    [i \in 1..Len(rs) |->
        IF rs[i].modelOutput # None
        THEN Some([recordId |-> rs[i].recordId,
                   outputModel |-> validate_result(rs[i].modelOutput.v).ret])
        ELSE None]

load_results(c) ==
    /\ c \in live
    /\ LET err == LoadError(output_file_name[c], manifest_file_name[c], disk)
       IN IF err # NoErr
          THEN /\ last' = Outcome("load_results", c, job_status[c], NotAsked, NoneStr,
                                  err, NoIO)
               /\ UNCHANGED loaded
          ELSE LET rs == disk[output_file_name[c]]
                   bad == Raising(rs)
               IN /\ results' = [results EXCEPT ![c] = Some(rs)]
                  /\ manifest' = [manifest EXCEPT ![c] =
                                     Some(disk[manifest_file_name[c]][1])]
                  /\ IF ~structured[c]
                     THEN /\ UNCHANGED instances
                          /\ last' = Outcome("load_results", c, job_status[c], NotAsked,
                                             NoneStr, NoErr, NoIO)
                     ELSE IF bad = {}
                     THEN /\ instances' = [instances EXCEPT ![c] = Some(Validated(rs))]
                          /\ last' = Outcome("load_results", c, job_status[c], NotAsked,
                                             NoneStr, NoErr, NoIO)
                     ELSE \* the comprehension stops at the first record that raises
                          LET first == CHOOSE i \in bad : \A j \in bad : i <= j
                          IN /\ UNCHANGED instances
                             /\ last' = Outcome("load_results", c, job_status[c],
                                                NotAsked, NoneStr,
                                                validate_result(rs[first].modelOutput.v).err,
                                                NoIO)
    /\ UNCHANGED <<live, structured, job_name, model_name, job_arn, job_status, requests,
                   output_file_name, manifest_file_name, heap, disk, s3, remote>>

----------------------------------------------------------------------------
(* Recovery: check_for_existing_job, recover_details_from_job_arn,         *)
(* recover_structured_job                                                  *)

\* identifiers a caller may pass: ARNs of the batch service, and one of
\* another service
RecoverArns == {Arn(n) : n \in 1..MaxJobs} \cup {<<"arn:aws:s3:", 1>>}

\* mutant: the shape of the identifier is not looked at
BedrockShaped_Any(arn) == TRUE

\* job_arn.startswith("arn:aws:bedrock:")
BedrockShaped(arn) == arn[1] = BedrockPrefix

\* the service knows the jobs it created
KnownJob(arn) == BedrockShaped(arn) /\ arn[2] \in 1..Len(remote)

\* check_for_existing_job: the response, or the error it raises, the number
\* of get-job calls made and the answer of the service: the job, the error
\* code ResourceNotFoundException, or a failure of another kind (another
\* ClientError, a response of another status code)
ExistingJob(arn) ==
    IF ~BedrockShaped(arn)
    THEN {[err |-> "ValueError", get |-> 0, code |-> "not asked"]}
    ELSE IF ~KnownJob(arn)
    THEN {[err |-> "ValueError", get |-> 1, code |-> "ResourceNotFoundException"],
          [err |-> "RuntimeError", get |-> 1, code |-> "failure"]}
    ELSE {[err |-> NoErr, get |-> 1, code |-> "ok", job |-> remote[arn[2]],
           status |-> st] : st \in RemoteStatuses}
         \cup {[err |-> "RuntimeError", get |-> 1, code |-> "failure"]}

\* mutant: the recovered controller is given a fixed name
RecoveredName_Default(found) == "job"

\* "job_name = response['jobName']"
RecoveredName(found) == found.job.jobName

\* mutant: the recovered controller starts without a status
RecoveredStatus_Unset(found) == NoneStr

\* "bi.job_status = response['status']"
RecoveredStatus(found) == found.status

\* the body both recovery entry points share; isStructured is the class
\* being constructed.  The caller binds the new controller to c: whatever c
\* held before is gone, and every attribute the constructor sets starts anew.
Recover(op, c, isStructured, arn) ==
    \E found \in ExistingJob(arn) :
      LET io == [NoIO EXCEPT !.get = found.get]
      IN IF found.err # NoErr
         THEN /\ last' = Outcome(op, c, NoneStr, found, NoneStr, found.err, io)
              /\ UNCHANGED <<structured, job_name, model_name, job_arn, job_status, requests,
                             output_file_name, manifest_file_name, loaded>>
         ELSE LET input_file == <<RecoveredName(found), ".jsonl">>
              IN IF input_file \notin DOMAIN disk
                 THEN \* FileNotFoundError, caught by "except Exception"
                      /\ last' = Outcome(op, c, NoneStr, found, NoneStr, "RuntimeError", io)
                      /\ UNCHANGED <<structured, job_name, model_name, job_arn, job_status,
                                     requests, output_file_name, manifest_file_name,
                                     loaded>>
                 ELSE /\ structured' = [structured EXCEPT ![c] = isStructured]
                      /\ job_name' = [job_name EXCEPT ![c] = RecoveredName(found)]
                      /\ model_name' = [model_name EXCEPT ![c] = found.job.modelId]
                      /\ output_file_name' = [output_file_name EXCEPT ![c] = NoName]
                      /\ manifest_file_name' = [manifest_file_name EXCEPT ![c] = NoName]
                      /\ results' = [results EXCEPT ![c] = None]
                      /\ manifest' = [manifest EXCEPT ![c] = None]
                      /\ instances' = [instances EXCEPT ![c] = None]
                      /\ job_arn' = [job_arn EXCEPT ![c] = arn]
                      /\ requests' = [requests EXCEPT ![c] = Some(disk[input_file])]
                      /\ job_status' = [job_status EXCEPT ![c] = RecoveredStatus(found)]
                      /\ last' = Outcome(op, c, NoneStr, found, "controller", NoErr, io)

\* mutant: StructuredBatchInferer inherits the plain entry point
Overridden_Inherited(isStructured) == FALSE

\* StructuredBatchInferer overrides recover_details_from_job_arn
Overridden(isStructured) == isStructured

recover_details_from_job_arn(c, isStructured, arn) ==
    /\ c \in live
    /\ IF Overridden(isStructured)
       THEN \* the override of StructuredBatchInferer
            /\ last' = Outcome("recover_details_from_job_arn", c, NoneStr, NotAsked,
                               NoneStr, "TypeError", NoIO)
            /\ UNCHANGED <<structured, job_name, model_name, job_arn, job_status, requests,
                           output_file_name, manifest_file_name, loaded>>
       ELSE Recover("recover_details_from_job_arn", c, FALSE, arn)
    /\ UNCHANGED <<live, heap, disk, s3, remote>>

recover_structured_job(c, arn) ==
    /\ c \in live
    /\ Recover("recover_structured_job", c, TRUE, arn)
    /\ UNCHANGED <<live, heap, disk, s3, remote>>

----------------------------------------------------------------------------

(* BatchInferer.poll_progress and BatchInferer.auto: calls that last, a    *)
(* step for each statement that calls out.                                 *)

\* no poll_progress or auto call is under way
Idle == run.at \in {"idle", "returned", "raised"}

\* a count of calls, exact up to MaxPolls
Capped(n) == IF n > MaxPolls THEN MaxPolls ELSE n

\* the call `call` on controller c, standing at its statement `at`
Started(call, c, at) == [NoRun EXCEPT !.call = call, !.c = c, !.at = at]

\* controller c's auto call stands at the statement `at`
At(c, at) == run.call = "auto" /\ run.c = c /\ run.at = at

\* mutant: auto does not wait for the job
AutoOrder_NoPoll ==
    <<"prepare_requests", "push_requests_to_s3", "create", "download_results",
      "load_results">>

\* the statements of auto, in order
AutoOrder ==
    <<"prepare_requests", "push_requests_to_s3", "create", "poll_progress",
      "download_results", "load_results">>

\* the statement after `at`; after the last one auto returns self.results
AfterStage(at) ==
    LET i == CHOOSE j \in 1..Len(AutoOrder) : AutoOrder[j] = at
    IN IF i = Len(AutoOrder) THEN "returned" ELSE AutoOrder[i + 1]

\* the run r after one of its statements ended as `out` tells: an exception
\* ends the call
Advance(r, out) ==
    [r EXCEPT !.at = IF out.err # NoErr THEN "raised"
                     ELSE IF r.call = "auto" THEN AfterStage(r.at) ELSE "returned"]

\* mutant: the loop ends after its first check_complete call
PollDone_AfterOne(ret) == TRUE

\* "while not self.check_complete()": the loop ends when the call returns a
\* status
PollDone(ret) == ret # NoneStr

\* the run r after the check_complete call of one pass of the loop ended as
\* `out` tells: the loop sleeps and goes on, or ends
Polled(r, out) ==
    LET n == Capped(r.gets + out.io.get)
    IN [r EXCEPT !.gets = n,
                 !.first = IF /\ @ = 0 /\ out.io.get = 1 /\ out.resp.kind = "ok"
                              /\ out.resp.status \in VALID_FINISHED_STATUSES
                           THEN n ELSE @,
                 !.at = IF out.err = NoErr /\ ~PollDone(out.ret)
                        THEN r.at ELSE Advance(r, out).at]

\* one pass of the loop of poll_progress on controller c: the first pass of a
\* new call, or the next pass of the call under way
poll_progress(c, resp) ==
    /\ Idle \/ (run.call = "poll_progress" /\ run.c = c /\ run.at = "poll_progress")
    /\ check_complete(c, resp)
    /\ run' = Polled(IF Idle THEN Started("poll_progress", c, "poll_progress") ELSE run,
                     last')

\* auto(inputs): its statements, one step each
auto_prepare_requests(c, inputs) ==
    /\ Idle
    /\ prepare_requests(c, inputs)
    /\ run' = Advance(Started("auto", c, AutoOrder[1]), last')

auto_push_requests_to_s3(c) ==
    /\ At(c, "push_requests_to_s3")
    /\ push_requests_to_s3(c)
    /\ run' = Advance(run, last')

auto_create(c, resp) ==
    /\ At(c, "create")
    /\ create(c, resp)
    /\ run' = Advance(run, last')

auto_poll_progress(c, resp) ==
    /\ At(c, "poll_progress")
    /\ check_complete(c, resp)
    /\ run' = Polled(run, last')

auto_download_results(c, resp, d) ==
    /\ At(c, "download_results")
    /\ download_results(c, resp, d)
    /\ run' = [Advance(run, last') EXCEPT !.later = Capped(@ + last'.io.get)]

auto_load_results(c) ==
    /\ At(c, "load_results")
    /\ load_results(c)
    /\ run' = [Advance(run, last') EXCEPT !.later = Capped(@ + last'.io.get)]

----------------------------------------------------------------------------

\* every response the environment may give to a call
AnyResponse ==
    {NotAsked} \cup CreateResponses \cup StopResponses
    \cup UNION {GetResponses(arn) : arn \in {NoArn, Arn(1)}}
AnyDownload == {<<>>} \cup DownloadResponses

\* the calls on one controller object, from its construction on
Next ==
    \/ \E c \in live, inputs \in LifecycleInputs : prepare_requests(c, inputs)
          /\ UNCHANGED run
    \/ \E c \in live : push_requests_to_s3(c) /\ UNCHANGED run
    \/ \E c \in live, resp \in AnyResponse : create(c, resp) /\ UNCHANGED run
    \/ \E c \in live, resp \in AnyResponse : check_complete(c, resp) /\ UNCHANGED run
    \/ \E c \in live, resp \in AnyResponse : cancel_batch(c, resp) /\ UNCHANGED run
    \/ \E c \in live, resp \in AnyResponse, d \in AnyDownload : download_results(c, resp, d)
          /\ UNCHANGED run

Spec == Init /\ [][Next]_vars

\* the Builder over every input mapping, followed by upload and creation
NextBuilder ==
    \/ \E c \in live, inputs \in InputMappings : prepare_requests(c, inputs)
          /\ UNCHANGED run
    \/ \E c \in live : push_requests_to_s3(c) /\ UNCHANGED run
    \/ \E c \in live, resp \in AnyResponse : create(c, resp) /\ UNCHANGED run

SpecBuilder == Init /\ [][NextBuilder]_vars

\* A process that starts where an earlier one stopped: the service holds the
\* job that process created, the bucket its submission, and the local
\* submission artifact is lost, emptied or intact.  The caller may replace its
\* untouched controller by one recovered from a job.
PriorBatch == BuildRequests(Mapping(MinBatchSize, "o1"), InitHeap)
PriorJob == [jobName |-> "job", modelId |-> "model",
             inputUri |-> InputKey(<<"job", ".jsonl">>), varied |-> <<>>]
PriorFiles == {<<>>, <<"job", ".jsonl">> :> <<>>, <<"job", ".jsonl">> :> PriorBatch}

InitRecovery ==
    \E files \in PriorFiles :
        Constructed(files, InputKey(<<"job", ".jsonl">>) :> PriorBatch, <<PriorJob>>)

Untouched(c) == requests[c] = None /\ job_arn[c] = NoArn

NextRecovery ==
    \/ Next
    \/ \E c \in live, k \in BOOLEAN, arn \in RecoverArns :
          Untouched(c) /\ recover_details_from_job_arn(c, k, arn) /\ UNCHANGED run
    \/ \E c \in live, arn \in RecoverArns :
          Untouched(c) /\ recover_structured_job(c, arn) /\ UNCHANGED run

SpecRecovery == InitRecovery /\ [][NextRecovery]_vars

\* A process beside a job an earlier controller, of another name and model,
\* created: its submission artifact is lost or intact.  The caller prepares,
\* uploads and creates a job of its own, and may replace a controller that has
\* learnt no status yet by one recovered from either job.
EarlierJob == [jobName |-> "earlier", modelId |-> "earlier-model",
               inputUri |-> InputKey(<<"earlier", ".jsonl">>), varied |-> <<>>]

InitRoundTrip ==
    \E files \in {<<>>, <<"earlier", ".jsonl">> :> PriorBatch} :
        Constructed(files, InputKey(<<"earlier", ".jsonl">>) :> PriorBatch,
                    <<EarlierJob>>)

Unpolled(c) == job_status[c] = NoneStr

NextRoundTrip ==
    \/ \E c \in live : prepare_requests(c, Mapping(MinBatchSize, "o1"))
          /\ UNCHANGED run
    \/ \E c \in live : push_requests_to_s3(c) /\ UNCHANGED run
    \/ \E c \in live, resp \in AnyResponse : create(c, resp) /\ UNCHANGED run
    \/ \E c \in live, arn \in RecoverArns :
          Unpolled(c) /\ recover_details_from_job_arn(c, FALSE, arn) /\ UNCHANGED run
    \/ \E c \in live, arn \in RecoverArns :
          Unpolled(c) /\ recover_structured_job(c, arn) /\ UNCHANGED run

SpecRoundTrip == InitRoundTrip /\ [][NextRoundTrip]_vars

\* A process that starts after the job of an earlier one was created: the
\* service holds that job and what it writes for it, an output file whose
\* first MaxVaried lines are of any kind.  The caller recovers a controller,
\* downloads and loads.
\* the submission of that job: the batch a structured controller prepares
LoaderBatch ==
    BuildRequests(Mapping(MinBatchSize, "o1"),
                  WithTools(Mapping(MinBatchSize, "o1"), InitHeap))

InitLoader ==
    \E kinds \in [1..MaxVaried -> ResultKinds] :
        Constructed(<<"job", ".jsonl">> :> LoaderBatch,
                    InputKey(<<"job", ".jsonl">>) :> LoaderBatch,
                    <<[PriorJob EXCEPT !.varied = kinds]>>)

NextLoader ==
    \/ \E c \in live, arn \in RecoverArns :
          Untouched(c) /\ recover_details_from_job_arn(c, FALSE, arn) /\ UNCHANGED run
    \/ \E c \in live, arn \in RecoverArns :
          Untouched(c) /\ recover_structured_job(c, arn) /\ UNCHANGED run
    \/ \E c \in live, resp \in AnyResponse, d \in AnyDownload : download_results(c, resp, d)
          /\ UNCHANGED run
    \/ \E c \in live : load_results(c) /\ UNCHANGED run

SpecLoader == InitLoader /\ [][NextLoader]_vars

\* A caller that prepares a batch, creates a job and waits for it.  Nothing
\* else is called on the controller while a poll_progress call is under way.
NextPoll ==
    \/ \E c \in live : Idle /\ prepare_requests(c, Mapping(MinBatchSize, "o1"))
          /\ UNCHANGED run
    \/ \E c \in live, resp \in AnyResponse : Idle /\ create(c, resp) /\ UNCHANGED run
    \/ \E c \in live, resp \in AnyResponse : poll_progress(c, resp)

SpecPoll == Init /\ [][NextPoll]_vars

\* a pass of the loop under way: time.sleep returns and the loop goes on
PollPass == \E c \in live, resp \in AnyResponse : ~Idle /\ poll_progress(c, resp)

\* a pass of the loop under way to which the service reports a finished status
FinishedReported ==
    \E c \in live, st \in VALID_FINISHED_STATUSES :
        ~Idle /\ poll_progress(c, [kind |-> "ok", status |-> st])

\* the loop keeps running, and the service reports a finished status in the end
SpecPollLive == SpecPoll /\ WF_vars(PollPass) /\ SF_vars(FinishedReported)

\* A caller that makes auto calls on its controller, one after the other.
NextAuto ==
    \/ \E c \in live, inputs \in LifecycleInputs : auto_prepare_requests(c, inputs)
    \/ \E c \in live : auto_push_requests_to_s3(c)
    \/ \E c \in live, resp \in AnyResponse : auto_create(c, resp)
    \/ \E c \in live, resp \in AnyResponse : auto_poll_progress(c, resp)
    \/ \E c \in live, resp \in AnyResponse, d \in AnyDownload :
          auto_download_results(c, resp, d)
    \/ \E c \in live : auto_load_results(c)

SpecAuto == Init /\ [][NextAuto]_vars

\* A caller that holds two controllers, the structured "a" and the plain "b",
\* and prepares their batches from inputs that refer to the same ModelInput
\* objects; it creates and polls their jobs.
PairInputs == {Mapping(MinBatchSize, o) : o \in ObjIds}

InitPair ==
    /\ live = Controllers
    /\ structured = [c \in Controllers |-> c = "a"]
    /\ job_name = [c \in Controllers |-> "job"]
    /\ model_name = [c \in Controllers |-> "model"]
    /\ job_arn = [c \in Controllers |-> NoArn]
    /\ job_status = [c \in Controllers |-> NoneStr]
    /\ requests = [c \in Controllers |-> None]
    /\ output_file_name = [c \in Controllers |-> NoName]
    /\ manifest_file_name = [c \in Controllers |-> NoName]
    /\ results = [c \in Controllers |-> None]
    /\ manifest = [c \in Controllers |-> None]
    /\ instances = [c \in Controllers |-> None]
    /\ heap = InitHeap
    /\ disk = <<>>
    /\ s3 = <<>>
    /\ remote = <<>>
    /\ last = Outcome("__init__", "b", NoneStr, NotAsked, NoneStr, NoErr, NoIO)
    /\ run = NoRun

NextPair ==
    \/ \E c \in live, inputs \in PairInputs : prepare_requests(c, inputs)
          /\ UNCHANGED run
    \/ \E c \in live, resp \in AnyResponse : create(c, resp) /\ UNCHANGED run
    \/ \E c \in live, resp \in AnyResponse : check_complete(c, resp) /\ UNCHANGED run

SpecPair == InitPair /\ [][NextPair]_vars

----------------------------------------------------------------------------
(* Properties.                                                             *)

\* the terminal states of the design's state machine
Terminal == {"Completed", "Failed", "Stopped", "Expired"}

\* C1: once the cached job_status is terminal, a check_complete call returns
\* the cached value, leaves job_status as it was, raises nothing and makes no
\* get-job call, whatever the service would report
C1_CheckStatusIdempotent ==
    \A c \in live :
        (last.op = "check_complete" /\ last.c = c /\ last.was \in Terminal)
        => /\ last.ret = last.was
           /\ job_status[c] = last.was
           /\ last.io = NoIO
           /\ last.err = NoErr

\* a check_complete call answered from the cache
C1_Witness ==
    \E c \in live :
        /\ last.op = "check_complete" /\ last.c = c
        /\ last.was \in Terminal
        /\ last.ret = last.was
        /\ job_arn[c] # NoArn

\* C2: prepare_requests, plain or structured, on a mapping of fewer than
\* MinBatchSize entries raises ValueError, does no I/O, and leaves requests,
\* job_arn and job_status (and the disk, the bucket and the service) as they
\* were; on a mapping of MinBatchSize entries or more it succeeds and the
\* prepared batch has one record per entry
C2_BuilderMinimumSize ==
    [][\A c \in live :
         (last'.op = "prepare_requests" /\ last'.c = c)
         => IF last'.size < MinBatchSize
            THEN /\ last'.err = "ValueError"
                 /\ last'.io = NoIO
                 /\ requests' = requests
                 /\ job_arn' = job_arn
                 /\ job_status' = job_status
                 /\ disk' = disk /\ s3' = s3 /\ remote' = remote
            ELSE /\ last'.err = NoErr
                 /\ last'.io = NoIO
                 /\ requests'[c] # None
                 /\ Len(requests'[c].v) = last'.size]_vars

\* a structured controller that rejected an undersized mapping and still
\* holds the batch prepared before
C2_Witness ==
    \E c \in live :
        /\ structured[c]
        /\ last.op = "prepare_requests" /\ last.c = c
        /\ last.err = "ValueError"
        /\ last.size = MinBatchSize - 1
        /\ requests[c] # None
        /\ Len(requests[c].v) > MinBatchSize

\* C3 as stated: right after a successful create, job_arn is set and
\* job_status is no longer the unset value it had at construction
C3_StatusRunningAfterCreate ==
    \A c \in live :
        (last.op = "create" /\ last.c = c /\ last.err = NoErr)
        => (job_arn[c] # NoArn /\ job_status[c] # NoneStr)

\* C3, amended: a create call that receives the success code assigns the ARN
\* the service returned to job_arn and leaves job_status as it was, so after
\* the first successful create job_status is still unset; the controller is
\* running only in that job_arn is set and job_status is not finished
C3_CreateAssignsArnOnly ==
    [][\A c \in live :
         (last'.op = "create" /\ last'.c = c /\ last'.err = NoErr)
         => /\ last'.resp.kind = "response" /\ last'.resp.code = HTTP_OK
            /\ job_arn'[c] = last'.resp.jobArn
            /\ job_arn'[c] # NoArn
            /\ job_status'[c] = job_status[c]
            /\ (job_arn[c] = NoArn => job_status'[c] = NoneStr)]_vars

\* the first job created: the ARN is assigned and job_status is still unset
C3_Witness ==
    \E c \in live :
        /\ last.op = "create" /\ last.c = c /\ last.err = NoErr
        /\ job_arn[c] = Arn(1)
        /\ job_status[c] = NoneStr

\* C4: a create call answered with a response of another status code, or with
\* an empty response, raises RuntimeError and leaves job_arn (unset if it was
\* unset), job_status and the prepared batch as they were
C4_CreateRejected ==
    [][\A c \in live :
         (/\ last'.op = "create" /\ last'.c = c
          /\ \/ last'.resp.kind = "empty"
             \/ (last'.resp.kind = "response" /\ last'.resp.code # HTTP_OK))
         => /\ last'.err = "RuntimeError"
            /\ job_arn' = job_arn
            /\ job_status' = job_status
            /\ requests' = requests
            /\ remote' = remote]_vars

\* a rejected first create: the controller has a batch and still no ARN
C4_Witness ==
    \E c \in live :
        /\ last.op = "create" /\ last.c = c
        /\ last.resp.kind = "response" /\ last.resp.code # HTTP_OK
        /\ last.err = "RuntimeError"
        /\ requests[c] # None
        /\ job_arn[c] = NoArn

\* C5: create on a controller whose requests are unset or empty raises
\* AttributeError, sends no create request and leaves job_arn and job_status
\* as they were
C5_CreateNeedsBatch ==
    [][\A c \in live :
         (/\ last'.op = "create" /\ last'.c = c
          /\ (requests[c] = None \/ requests[c] = Some(<<>>)))
         => /\ last'.err = "AttributeError"
            /\ last'.io = NoIO
            /\ job_arn' = job_arn
            /\ job_status' = job_status
            /\ remote' = remote]_vars

\* create was called on a controller recovered from an emptied submission
\* artifact: its batch is set and empty
C5_Witness ==
    \E c \in live :
        /\ last.op = "create" /\ last.c = c
        /\ requests[c] = Some(<<>>)
        /\ job_arn[c] # NoArn
        /\ last.err = "AttributeError"

\* create was called before any batch was prepared
C5_WitnessUnset ==
    \E c \in live :
        /\ last.op = "create" /\ last.c = c
        /\ requests[c] = None
        /\ last.err = "AttributeError"

\* C6 as stated: when the cached status is not terminal and the service
\* reports InProgress or Stopping, check_complete returns None and job_status
\* is what it was before the call
C6_NonTerminalReportLeavesStatus ==
    \A c \in live :
        (/\ last.op = "check_complete" /\ last.c = c
         /\ last.was \notin Terminal
         /\ last.resp.kind = "ok" /\ last.resp.status \notin Terminal)
        => (last.ret = NoneStr /\ job_status[c] = last.was)

\* C7: check_complete on a controller whose cached status is not terminal
\* calls get-job exactly once; a reported terminal status is cached and
\* returned; the value returned is not None exactly when the reported status
\* is terminal
C7_CheckStatusQueriesOnce ==
    \A c \in live :
        (last.op = "check_complete" /\ last.c = c /\ last.was \notin Terminal)
        => /\ last.io = [NoIO EXCEPT !.get = 1]
           /\ last.resp.kind = "ok"
              => /\ last.resp.status \in Terminal
                    => (job_status[c] = last.resp.status /\ last.ret = last.resp.status)
                 /\ (last.ret # NoneStr) <=> (last.resp.status \in Terminal)

\* a check_complete call that asked the service and was told Failed
C7_Witness ==
    \E c \in live :
        /\ last.op = "check_complete" /\ last.c = c
        /\ last.was \notin Terminal
        /\ last.io.get = 1
        /\ last.resp.kind = "ok" /\ last.resp.status = "Failed"
        /\ last.ret = "Failed"

\* C8: cancel_batch on a controller whose job_arn is unset raises ValueError,
\* sends no stop request and leaves job_status and job_arn as they were
C8_CancelNeedsArn ==
    [][\A c \in live :
         (last'.op = "cancel_batch" /\ last'.c = c /\ job_arn[c] = NoArn)
         => /\ last'.err = "ValueError"
            /\ last'.io = NoIO
            /\ job_status' = job_status
            /\ job_arn' = job_arn
            /\ remote' = remote]_vars

\* cancel_batch was called on a controller that has a batch but no job
C8_Witness ==
    \E c \in live :
        /\ last.op = "cancel_batch" /\ last.c = c
        /\ job_arn[c] = NoArn
        /\ requests[c] # None
        /\ last.err = "ValueError"

\* C9: a cancel_batch call that receives the success code leaves job_status
\* Stopped; from then on job_status stays Stopped whatever the service
\* reports: check_complete returns Stopped without a get-job call, and
\* download_results goes on to the transfer without a get-job call
C9_CancelForcesStopped ==
    [][\A c \in live :
         /\ (last'.op = "cancel_batch" /\ last'.c = c /\ last'.err = NoErr)
            => job_status'[c] = "Stopped"
         /\ job_status[c] = "Stopped"
            => /\ job_status'[c] = "Stopped"
               /\ (last'.op = "check_complete" /\ last'.c = c)
                  => (last'.ret = "Stopped" /\ last'.io = NoIO /\ last'.err = NoErr)
               /\ (last'.op = "download_results" /\ last'.c = c)
                  => /\ last'.io.get = 0
                     /\ last'.io.download >= 1
                     /\ output_file_name'[c] # NoName]_vars

\* a cancel accepted while the service last reported the job in progress
C9_Witness ==
    \E c \in live :
        /\ last.op = "cancel_batch" /\ last.c = c /\ last.err = NoErr
        /\ last.was = "InProgress"
        /\ job_status[c] = "Stopped"

\* C10: cancel_batch on a controller whose cached status is terminal, when the
\* stop request is answered with the success code, succeeds, caches Stopped
\* and makes no get-job call: its only remote call is the stop request
C10_CancelAfterTerminal ==
    \A c \in live :
        (/\ last.op = "cancel_batch" /\ last.c = c
         /\ last.was \in Terminal
         /\ last.resp.kind = "response" /\ last.resp.code = HTTP_OK)
        => /\ last.err = NoErr
           /\ job_status[c] = "Stopped"
           /\ last.io = [NoIO EXCEPT !.stop = 1]

\* a cancel accepted after Completed had been cached
C10_Witness ==
    \E c \in live :
        /\ last.op = "cancel_batch" /\ last.c = c /\ last.err = NoErr
        /\ last.was = "Completed"
        /\ job_status[c] = "Stopped"

\* C11: a cancel_batch call whose stop request is answered with a response of
\* another status code than the success code raises RuntimeError, having sent
\* that one stop request, and leaves job_status and job_arn as they were before
\* the call
C11_CancelRejected ==
    [][\A c \in live :
         (/\ last'.op = "cancel_batch" /\ last'.c = c
          /\ last'.resp.kind = "response" /\ last'.resp.code # HTTP_OK)
         => /\ last'.err = "RuntimeError"
            /\ last'.io = [NoIO EXCEPT !.stop = 1]
            /\ job_status'[c] = job_status[c]
            /\ job_status'[c] = last'.was
            /\ job_arn'[c] = job_arn[c]
            /\ job_arn'[c] # NoArn]_vars

\* a stop request rejected while the service last reported the job in progress
C11_Witness ==
    \E c \in live :
        /\ last.op = "cancel_batch" /\ last.c = c
        /\ last.resp.kind = "response" /\ last.resp.code # HTTP_OK
        /\ last.err = "RuntimeError"
        /\ last.was = "InProgress"
        /\ job_status[c] = "InProgress"
        /\ job_arn[c] # NoArn

\* C12 as stated: a download_results call made while the job is not finished
\* (check_complete inside it returns None) raises an error to the caller
C12_DownloadBeforeTerminalRaises ==
    \A c \in live :
        (/\ last.op = "download_results" /\ last.c = c
         /\ last.was \notin Terminal
         /\ last.resp.kind = "ok" /\ last.resp.status \notin Terminal)
        => last.err # NoErr

\* C13: a download_results call transfers a result artifact (calls
\* download_file, changes the local files) only if afterwards the cached
\* job_status is terminal and job_arn is set; a call that leaves job_status
\* not terminal, or finds job_arn unset, calls download_file not at all, leaves
\* the local files alone and leaves both result artifact names unset.  Hence in
\* every state a controller whose result artifact names are set, or whose
\* result artifacts are on disk, has a terminal job_status and a job_arn.
C13_TransferOnlyWhenTerminal ==
    [][\A c \in live :
         /\ (last'.op = "download_results" /\ last'.c = c)
            => /\ (last'.io.download > 0 \/ disk' # disk)
                  => (job_status'[c] \in Terminal /\ job_arn'[c] # NoArn)
               /\ (job_status'[c] \notin Terminal \/ job_arn'[c] = NoArn)
                  => /\ last'.io.download = 0
                     /\ disk' = disk
                     /\ output_file_name'[c] = NoName
                     /\ manifest_file_name'[c] = NoName
         /\ (\/ output_file_name'[c] # NoName
             \/ manifest_file_name'[c] # NoName
             \/ OutName(file_name(c)) \in DOMAIN disk'
             \/ ManifestName(file_name(c)) \in DOMAIN disk')
            => (job_status'[c] \in Terminal /\ job_arn'[c] # NoArn)]_vars

\* both artifacts transferred by a download_results call that itself learnt
\* that the job had completed
C13_Witness ==
    \E c \in live :
        /\ last.op = "download_results" /\ last.c = c
        /\ last.was \notin Terminal
        /\ last.io.get = 1 /\ last.io.download = 2
        /\ job_status[c] = "Completed"
        /\ job_arn[c] # NoArn
        /\ output_file_name[c] = OutName(file_name(c))
        /\ ManifestName(file_name(c)) \in DOMAIN disk

\* a download_results call made too early: the job exists and is in progress
C13_WitnessEarly ==
    \E c \in live :
        /\ last.op = "download_results" /\ last.c = c
        /\ job_arn[c] # NoArn
        /\ job_status[c] = "InProgress"
        /\ last.io.download = 0
        /\ output_file_name[c] = NoName

\* C14 as stated: a load_results call made while the two result artifacts are
\* not both on the local disk, the case of result artifact names still unset
\* included, raises FileExistsError and leaves results and manifest unset
C14_LoadWithoutArtifactsRaisesMissing ==
    \A c \in live :
        (/\ last.op = "load_results" /\ last.c = c
         /\ \/ output_file_name[c] = NoName
            \/ output_file_name[c] \notin DOMAIN disk
            \/ manifest_file_name[c] \notin DOMAIN disk)
        => /\ last.err = "FileExistsError"
           /\ results[c] = None
           /\ manifest[c] = None

\* load_results called on a recovered controller that never ran
\* download_results
C14_NamesUnset ==
    \E c \in live :
        /\ last.op = "load_results" /\ last.c = c
        /\ job_arn[c] # NoArn
        /\ output_file_name[c] = NoName
        /\ last.err = "TypeError"

\* load_results called after a download that fetched the outputs but not the
\* manifest
C14_ManifestMissing ==
    \E c \in live :
        /\ last.op = "load_results" /\ last.c = c
        /\ output_file_name[c] \in DOMAIN disk
        /\ manifest_file_name[c] \notin DOMAIN disk
        /\ last.err = "FileExistsError"
        /\ results[c] = None

\* a raw result of C15's kinds: its stop reason is not tool_use, or its
\* content does not hold exactly one block
Malformed(r) ==
    /\ r.modelOutput # None
    /\ \/ r.modelOutput.v.stop_reason # "tool_use"
       \/ Len(r.modelOutput.v.content) # 1

\* a raw result whose single tool call carries name and age
Conforming(r) ==
    /\ r.modelOutput # None
    /\ r.modelOutput.v.stop_reason = "tool_use"
    /\ Len(r.modelOutput.v.content) = 1
    /\ r.modelOutput.v.content[1].type = "tool_use"
    /\ r.modelOutput.v.content[1].input.json = "object"
    /\ {"name", "age"} \subseteq DOMAIN r.modelOutput.v.content[1].input.v

C15_WitnessNoToolUse ==
    \E c \in live :
        /\ last.op = "load_results" /\ last.c = c /\ last.err = NoErr
        /\ structured[c]
        /\ results[c] # None /\ instances[c] # None
        /\ results[c].v[1].modelOutput # None
        /\ results[c].v[1].modelOutput.v.stop_reason = "end_turn"
        /\ instances[c].v[1] = Some([recordId |-> 1, outputModel |-> None])
        /\ instances[c].v[2].v.outputModel # None

\* a raw result whose single tool call carries an object without the field age
MissingAge(r) ==
    /\ r.modelOutput # None
    /\ r.modelOutput.v.stop_reason = "tool_use"
    /\ Len(r.modelOutput.v.content) = 1
    /\ r.modelOutput.v.content[1].type = "tool_use"
    /\ r.modelOutput.v.content[1].input.json = "object"
    /\ "age" \notin DOMAIN r.modelOutput.v.content[1].input.v

\* C16 as stated: a structured load_results that reads a file holding a tool
\* call whose payload misses the required field age raises nothing, and the
\* entry of that record in instances pairs its recordId with None
C16_FieldMismatchYieldsAbsent ==
    \A c \in live :
        (/\ last.op = "load_results" /\ last.c = c
         /\ structured[c]
         /\ results[c] # None
         /\ \E i \in 1..Len(results[c].v) : MissingAge(results[c].v[i]))
        => /\ last.err = NoErr
           /\ instances[c] # None
           /\ \A i \in 1..Len(results[c].v) :
                MissingAge(results[c].v[i])
                => instances[c].v[i] = Some([recordId |-> results[c].v[i].recordId,
                                             outputModel |-> None])

\* the part of C16 the code keeps: a conforming payload yields the instance
\* built from it, and a payload that is not a mapping yields None
C16_ConformingYieldsInstance ==
    \A c \in live :
        (/\ last.op = "load_results" /\ last.c = c /\ last.err = NoErr
         /\ structured[c])
        => \A i \in 1..Len(results[c].v) :
             LET r == results[c].v[i]
             IN /\ Conforming(r)
                   => instances[c].v[i].v.outputModel =
                        Some([model |-> SchemaTool.name,
                              name |-> r.modelOutput.v.content[1].input.v.name,
                              age |-> r.modelOutput.v.content[1].input.v.age])
                /\ (/\ r.modelOutput # None
                    /\ ~Malformed(r)
                    /\ r.modelOutput.v.content[1].type = "tool_use"
                    /\ r.modelOutput.v.content[1].input.json # "object")
                   => instances[c].v[i].v.outputModel = None

\* C17: recover_details_from_job_arn called on StructuredBatchInferer, with
\* whatever identifier, raises TypeError, makes no call on any client and
\* returns no controller: the caller's controller is what it was
C17_StructuredNeedsSchema ==
    [][\A c \in live, arn \in RecoverArns :
         recover_details_from_job_arn(c, TRUE, arn)
         => /\ last'.op = "recover_details_from_job_arn"
            /\ last'.err = "TypeError"
            /\ last'.io = NoIO
            /\ last'.ret # "controller"
            /\ structured'[c] = structured[c]
            /\ job_arn'[c] = job_arn[c]
            /\ job_status'[c] = job_status[c]
            /\ requests'[c] = requests[c]
            /\ job_name'[c] = job_name[c]]_vars

\* the plain entry point was refused although the service knows the job and
\* its submission artifact is on disk
C17_Witness ==
    \E c \in live :
        /\ last.op = "recover_details_from_job_arn" /\ last.c = c
        /\ last.err = "TypeError"
        /\ last.io = NoIO
        /\ Len(remote) >= 1
        /\ <<remote[1].jobName, ".jsonl">> \in DOMAIN disk
        /\ job_arn[c] = NoArn

\* the two recovery entry points
RecoveryOps == {"recover_details_from_job_arn", "recover_structured_job"}

\* C18 as stated: a recovery, plain or structured, of a job the service
\* reports, whose submission artifact is not on the local disk, raises
\* FileNotFoundError to the caller and returns no controller
C18_MissingArtifactSurfaced ==
    \A c \in live :
        (/\ last.op \in RecoveryOps /\ last.c = c
         /\ last.resp # NotAsked
         /\ last.resp.err = NoErr
         /\ <<last.resp.job.jobName, ".jsonl">> \notin DOMAIN disk)
        => /\ last.err = "FileNotFoundError"
           /\ last.ret # "controller"
           /\ job_arn[c] = NoArn

\* what the code does in that case: the caller gets a RuntimeError, after the
\* one get-job call, and no controller
C18_MissingArtifactWrapped ==
    \A c \in live :
        (/\ last.op \in RecoveryOps /\ last.c = c
         /\ last.resp # NotAsked
         /\ last.resp.err = NoErr
         /\ <<last.resp.job.jobName, ".jsonl">> \notin DOMAIN disk)
        => /\ last.err = "RuntimeError"
           /\ last.io = [NoIO EXCEPT !.get = 1]
           /\ last.ret # "controller"
           /\ job_arn[c] = NoArn /\ requests[c] = None

\* C19: a create call that succeeds leaves with the service a job carrying the
\* controller's job_name and model_name, under the ARN assigned to job_arn;
\* a recovery, plain or structured, from the ARN of a job the service reports,
\* whose submission artifact is on disk, succeeds and returns a controller
\* whose job_name and model_name are those of the job, whose job_arn is the ARN
\* given and whose requests are the records of that artifact; recovered from
\* the caller's own job, the controller has the job_name, model_name and
\* job_arn the caller's controller had
C19_RecoveryRoundTrip ==
    [][\A c \in live :
         /\ (last'.op = "create" /\ last'.c = c /\ last'.err = NoErr)
            => LET n == Len(remote')
               IN /\ job_arn'[c] = Arn(n)
                  /\ remote'[n].jobName = job_name[c]
                  /\ remote'[n].modelId = model_name[c]
         /\ (/\ last'.op \in RecoveryOps /\ last'.c = c
             /\ last'.resp # NotAsked
             /\ last'.resp.err = NoErr
             /\ <<last'.resp.job.jobName, ".jsonl">> \in DOMAIN disk)
            => last'.err = NoErr
         /\ (last'.op \in RecoveryOps /\ last'.c = c /\ last'.err = NoErr)
            => LET arn == job_arn'[c]
                   job == remote[unique_id_from_arn(arn)]
               IN /\ last'.ret = "controller"
                  /\ arn \in RecoverArns
                  /\ job_name'[c] = job.jobName
                  /\ model_name'[c] = job.modelId
                  /\ <<job.jobName, ".jsonl">> \in DOMAIN disk
                  /\ requests'[c] = Some(disk[<<job.jobName, ".jsonl">>])
                  /\ job_arn[c] = arn
                     => /\ job_name'[c] = job_name[c]
                        /\ model_name'[c] = model_name[c]
                        /\ requests'[c] = Some(disk[file_name(c)])]_vars

\* the controller recovered from the job this process created and uploaded
C19_Witness ==
    \E c \in live :
        /\ last.op \in RecoveryOps /\ last.c = c /\ last.err = NoErr
        /\ Len(remote) = 2
        /\ job_arn[c] = Arn(2)
        /\ job_name[c] = "job" /\ model_name[c] = "model"
        /\ requests[c] = Some(disk[<<"job", ".jsonl">>])
        /\ Len(requests[c].v) = MinBatchSize

\* the controller recovered from the job of the earlier process
C19_WitnessEarlier ==
    \E c \in live :
        /\ last.op = "recover_structured_job" /\ last.c = c /\ last.err = NoErr
        /\ structured[c]
        /\ job_arn[c] = Arn(1)
        /\ job_name[c] = "earlier" /\ model_name[c] = "earlier-model"
        /\ requests[c] = Some(PriorBatch)

\* the attributes of controller c are what they were
SameController(c) ==
    /\ structured'[c] = structured[c]
    /\ job_name'[c] = job_name[c]
    /\ model_name'[c] = model_name[c]
    /\ job_arn'[c] = job_arn[c]
    /\ job_status'[c] = job_status[c]
    /\ requests'[c] = requests[c]

\* C20: a recovery, plain or structured, given an identifier that does not
\* start with the ARN prefix of the batch service raises ValueError without
\* any get-job call; given an identifier of that shape which the service
\* answers with ResourceNotFoundException it raises ValueError after exactly
\* one get-job call; given an identifier of no job the service holds it never
\* succeeds; in each case no controller is returned
C20_RecoveryRejectsIdentifier ==
    [][\A c \in live, arn \in RecoverArns :
         (recover_details_from_job_arn(c, FALSE, arn) \/ recover_structured_job(c, arn))
         => /\ arn[1] # BedrockPrefix
               => /\ last'.err = "ValueError"
                  /\ last'.io = NoIO
                  /\ last'.ret # "controller"
                  /\ SameController(c)
            /\ (arn[1] = BedrockPrefix /\ arn[2] \notin 1..Len(remote))
               => /\ last'.err # NoErr
                  /\ last'.io = [NoIO EXCEPT !.get = 1]
                  /\ last'.ret # "controller"
                  /\ SameController(c)
                  /\ last'.resp.code = "ResourceNotFoundException"
                     => last'.err = "ValueError"]_vars

\* a recovery from a well-formed ARN of a job the service does not hold
C20_Witness ==
    \E c \in live :
        /\ last.op \in RecoveryOps /\ last.c = c
        /\ last.resp # NotAsked
        /\ last.resp.code = "ResourceNotFoundException"
        /\ last.err = "ValueError"
        /\ last.io.get = 1
        /\ job_arn[c] = NoArn

\* a recovery from an identifier of another service
C20_WitnessFormat ==
    \E c \in live :
        /\ last.op \in RecoveryOps /\ last.c = c
        /\ last.resp # NotAsked
        /\ last.resp.code = "not asked"
        /\ last.err = "ValueError"
        /\ last.io = NoIO
        /\ job_arn[c] = NoArn

\* the cached state of controller c is what it was before the step
SameCached(c) ==
    /\ job_arn'[c] = job_arn[c]
    /\ job_status'[c] = job_status[c]
    /\ requests'[c] = requests[c]
    /\ output_file_name'[c] = output_file_name[c]
    /\ manifest_file_name'[c] = manifest_file_name[c]
    /\ results'[c] = results[c]
    /\ manifest'[c] = manifest[c]

\* C21 as stated: a create, check_complete, cancel_batch or download_results
\* call that raises leaves job_arn, job_status, requests, the result artifact
\* names, results and manifest as they were before the call
C21_FailureLeavesState ==
    [][\A c \in live :
         (/\ last'.op \in {"create", "check_complete", "cancel_batch", "download_results"}
          /\ last'.c = c
          /\ last'.err # NoErr)
         => SameCached(c)]_vars

\* the part of C21 the code keeps: a create or cancel_batch call that raises,
\* and a check_complete or download_results call whose get-job call raises,
\* leave the cached state as it was, and no failing call repeats a call it made
C21_QueryFailureLeavesState ==
    [][\A c \in live :
         /\ (/\ last'.c = c /\ last'.err # NoErr
             /\ \/ last'.op \in {"create", "check_complete", "cancel_batch"}
                \/ (last'.op = "download_results" /\ last'.resp # NotAsked
                    /\ last'.resp.kind # "ok"))
            => SameCached(c)
         /\ (last'.c = c /\ last'.err # NoErr)
            => /\ last'.io.get <= 1 /\ last'.io.create <= 1 /\ last'.io.stop <= 1
               /\ last'.io.upload <= 1 /\ last'.io.download <= 2]_vars

\* C22 as stated: job_arn is unset at construction and, once a create call
\* has assigned it, no later call of the controller assigns it again
C22_ArnAssignedOnce ==
    [][\A c \in live :
         /\ job_arn[c] # NoArn => job_arn'[c] = job_arn[c]
         /\ job_arn'[c] # job_arn[c] => (last'.op = "create" /\ last'.err = NoErr)]_vars

\* C23 as stated: once job_status is terminal it never changes again, neither
\* to a non-terminal value nor to a different terminal value
C23_TerminalNeverChanges ==
    [][\A c \in live :
         job_status[c] \in Terminal => job_status'[c] = job_status[c]]_vars

\* C23: once job_status is terminal it stays terminal, and the only call that
\* changes its value is an accepted cancel_batch, which stores Stopped
C23_TerminalStaysTerminal ==
    [][\A c \in live :
         job_status[c] \in Terminal
         => /\ job_status'[c] \in Terminal
            /\ job_status'[c] # job_status[c]
               => /\ last'.op = "cancel_batch" /\ last'.c = c /\ last'.err = NoErr
                  /\ job_status'[c] = "Stopped"]_vars

\* a cancel accepted after Failed had been cached replaced it by Stopped
C23_Witness ==
    \E c \in live :
        /\ last.op = "cancel_batch" /\ last.c = c /\ last.err = NoErr
        /\ last.was = "Failed"
        /\ job_status[c] = "Stopped"

\* a status call made after Stopped had been stored left it in place
C23_WitnessKept ==
    \E c \in live :
        /\ last.op \in {"check_complete", "download_results"} /\ last.c = c
        /\ last.was = "Stopped"
        /\ job_status[c] = "Stopped"

\* C24 as stated: a check_complete or download_results call made while
\* job_arn is unset makes no get-job call
C24_NoQueryWithoutArn ==
    \A c \in live :
        (/\ last.op \in {"check_complete", "download_results"} /\ last.c = c
         /\ job_arn[c] = NoArn)
        => last.io.get = 0

\* a poll_progress call is inside its loop
Polling == run.call = "poll_progress" /\ run.at = "poll_progress"

\* where a poll_progress call stands: it has returned only with a finished
\* status cached, either the one cached when it was called, without a get-job
\* call, or the first one the service reported, with no get-job call after
\* it; and while it is in its loop no finished status was reported or cached
PollStands ==
    run.call = "poll_progress"
    => /\ run.at = "returned"
          => /\ job_status[run.c] \in Terminal
             /\ IF run.first = 0 THEN run.gets = 0 ELSE run.gets = run.first
       /\ run.at = "poll_progress"
          => run.first = 0 /\ job_status[run.c] \notin Terminal

\* a poll_progress call made with a finished status cached returns at once,
\* without a get-job call
PollEntry ==
    \A c \in live :
        (/\ Idle /\ job_status[c] \in Terminal
         /\ run'.call = "poll_progress" /\ run'.c = c /\ run' # run)
        => /\ run'.at = "returned" /\ run'.gets = 0
           /\ last'.io.get = 0 /\ job_status'[c] = job_status[c]

\* C25: poll_progress returns only once a finished status has been observed,
\* returns without a get-job call when one is cached on entry, stays in its
\* loop as long as the service reports none, and, provided the service does
\* report one in the end, leaves the loop (by returning, or by the exception
\* of a get-job call that failed)
C25_PollUntilFinished ==
    /\ []PollStands
    /\ [][PollEntry]_vars
    /\ Polling ~> (run.at \in {"returned", "raised"})

\* the loop made two get-job calls and returned at the second, the first that
\* was answered with a finished status
C25_Witness ==
    /\ run.call = "poll_progress" /\ run.at = "returned"
    /\ run.gets = 2 /\ run.first = 2
    /\ last.op = "check_complete" /\ last.err = NoErr /\ last.ret \in Terminal

\* a call returned without a get-job call: the status was cached on entry
C25_WitnessCached ==
    /\ run.call = "poll_progress" /\ run.at = "returned"
    /\ run.gets = 0 /\ last.io.get = 0 /\ last.was \in Terminal

\* the loop is still running after MaxPolls get-job calls
C25_WitnessLooping ==
    Polling /\ run.gets = MaxPolls /\ job_status[run.c] \notin Terminal

\* C26: in an auto call the get-job calls are those of its polling: the
\* download_results and load_results statements make none, and once the
\* polling is over the status cached is finished and the polling has made as
\* many get-job calls as the rank of the first one that was answered with a
\* finished status
C26_AutoQueriesArePolls ==
    run.call = "auto"
    => /\ run.later = 0
       /\ run.at \in {"download_results", "load_results", "returned"}
          => /\ run.gets = run.first
             /\ job_status[run.c] \in Terminal

\* an auto call returned the results after two get-job calls, the second
\* being the first that was answered with a finished status
C26_Witness ==
    /\ run.call = "auto" /\ run.at = "returned"
    /\ run.gets = 2 /\ run.first = 2 /\ run.later = 0
    /\ last.op = "load_results" /\ last.err = NoErr
    /\ results[run.c] # None

\* the tools of a ModelInput, as a set
ToolsOf(mi) == IF mi.tools = None THEN {} ELSE {mi.tools.v[i] : i \in 1..Len(mi.tools.v)}

\* C27 as stated: a ModelInput the structured prepare_requests has gone over
\* holds the schema tool beside the tools the caller gave it
C27_ExistingToolsKept ==
    \A o \in ObjIds :
        heap[o].tool_choice # None
        => ToolsOf(heap[o]) = ToolsOf(InitHeap[o]) \cup {SchemaTool}

\* the part of C27 the code keeps: a tool_choice that was set forces, by type
\* "tool", a tool that is in the tool list
C27_ForcedToolListed ==
    \A o \in ObjIds :
        heap[o].tool_choice # None
        => /\ heap[o].tool_choice.v.type = "tool"
           /\ \E t \in ToolsOf(heap[o]) : t.name = heap[o].tool_choice.v.name

\* C28 as stated: after a successful structured load_results, instances holds
\* one entry per raw result, in the order of the results, and every entry
\* carries the recordId of its raw result, those of results without a
\* modelOutput included
C28_EveryEntryPairsRecordId ==
    \A c \in live :
        (structured[c] /\ instances[c] # None /\ results[c] # None)
        => /\ Len(instances[c].v) = Len(results[c].v)
           /\ \A i \in 1..Len(results[c].v) :
                /\ instances[c].v[i] # None
                /\ instances[c].v[i].v.recordId = results[c].v[i].recordId

\* the part of C28 the code keeps: one entry per raw result, in order; the
\* entry of a result with a modelOutput carries its recordId, the entry of a
\* result without one is a bare None; results is the file's content as read
C28_OneEntryPerResult ==
    \A c \in live :
        (structured[c] /\ last.op = "load_results" /\ last.c = c /\ last.err = NoErr)
        => /\ results[c] = Some(disk[output_file_name[c]])
           /\ Len(instances[c].v) = Len(results[c].v)
           /\ \A i \in 1..Len(results[c].v) :
                IF results[c].v[i].modelOutput = None
                THEN instances[c].v[i] = None
                ELSE /\ instances[c].v[i] # None
                     /\ instances[c].v[i].v.recordId = results[c].v[i].recordId

\* C29 as stated, for the batch: whatever was called on the other controller,
\* the batch a plain controller has prepared is the one built from the
\* caller's inputs as the caller constructed them
C29_BatchFromCallerInputs ==
    \A c \in live :
        (~structured[c] /\ requests[c] # None)
        => \E inputs \in PairInputs : requests[c].v = BuildRequests(inputs, InitHeap)

\* the part of C29 the code keeps: a call on one controller leaves job_arn,
\* job_status and the prepared batch of every other controller as they were
C29_HandlesApart ==
    [][\A c \in live :
         last'.c # c
         => /\ job_arn'[c] = job_arn[c]
            /\ job_status'[c] = job_status[c]
            /\ requests'[c] = requests[c]]_vars

C30_WitnessAsked ==
    \E c \in live :
        /\ last.op = "check_complete" /\ last.c = c /\ last.io.get = 1
        /\ last.was = "Stopping"

\* the bucket holds, at controller c's input key, the batch c has prepared
Uploaded(c) ==
    /\ requests[c] # None
    /\ InputKey(file_name(c)) \in DOMAIN s3
    /\ s3[InputKey(file_name(c))] = requests[c].v

\* C31 as stated: a create call sends its request to the service only when
\* the batch the controller has prepared is the one uploaded to its input key
C31_CreateAfterUpload ==
    \A c \in live :
        (last.op = "create" /\ last.c = c /\ last.io.create = 1) => Uploaded(c)

\* the part of C31 the code keeps: the input location of a job the service
\* accepted is the controller's input key, and that key is where a
\* push_requests_to_s3 call that went through has put the prepared batch
C31_CreateNamesUploadLocation ==
    \A c \in live :
        /\ (last.op = "create" /\ last.c = c /\ last.err = NoErr)
           => remote[Len(remote)].inputUri = InputKey(file_name(c))
        /\ (last.op = "push_requests_to_s3" /\ last.c = c /\ last.err = NoErr)
           => Uploaded(c)

\* C32 as stated: a finished status is cached only with job_arn set, and it
\* is a status of the job job_arn names: when a call makes job_arn name
\* another job, no finished status stays cached
C32_StatusOfNamedJob ==
    [][\A c \in live :
         /\ job_status'[c] \in Terminal => job_arn'[c] # NoArn
         /\ job_arn'[c] # job_arn[c] => job_status'[c] \notin Terminal]_vars

\* the part of C32 the code keeps: a finished status is cached only with
\* job_arn set, and a call that caches one has asked the service about the
\* job job_arn names or has had its stop request for that job accepted
C32_TerminalHasArn ==
    [][\A c \in live :
         /\ job_status'[c] \in Terminal => job_arn'[c] # NoArn
         /\ (job_status'[c] \in Terminal /\ job_status'[c] # job_status[c])
            => /\ last'.c = c /\ job_arn'[c] = job_arn[c]
               /\ \/ /\ last'.op \in {"check_complete", "download_results"}
                     /\ last'.io.get = 1 /\ last'.resp \in GetResponses(job_arn[c])
                     /\ last'.resp.kind = "ok" /\ last'.resp.status = job_status'[c]
                  \/ /\ last'.op = "cancel_batch" /\ last'.err = NoErr
                     /\ last'.io.stop = 1 /\ job_status'[c] = "Stopped"]_vars

====
